---------------------------- MODULE Spec2Model ----------------------------
(***************************************************************************)
(* A model of the FpML semantic model library:                             *)
(*   - FpMLBaseModel (src/fpml_semantic_model/fpml_semantic_model.py and   *)
(*     the script variant src/fpml_semantic_model.py): the index builder,  *)
(*     lookup_tag, the minimal generator generate_xml_message and the      *)
(*     template generator generate_message;                                *)
(*   - the embedding prompt extractor                                      *)
(*     (src/fpml_semantic_model/embedding_generator.py).                   *)
(*                                                                         *)
(* Python dicts whose keys may be absent are TLA+ records whose DOMAIN     *)
(* holds only the keys present; dict.get is Get.  Python strings are TLA+  *)
(* strings (concatenated with \o); generated XML is a sequence of tokens   *)
(* (indentation, opening tag, text, closing tag, line break).              *)
(***************************************************************************)
EXTENDS Integers, Sequences, FiniteSets, TLC

VARIABLES file, ctor, data, res, edata, epc, key_to_prompt_map, all_prompts,
          generated_embeddings, call, stack, rpc

vars == <<file, ctor, data, res, edata, epc, key_to_prompt_map, all_prompts,
          generated_embeddings, call, stack, rpc>>

modelVars == <<file, ctor, data, res>>

embedVars == <<edata, epc, key_to_prompt_map, all_prompts, generated_embeddings>>

\* A generator call followed frame by frame: the call, the frames of the
\* recursive function on the interpreter's stack, and how far the call is.
runVars == <<call, stack, rpc>>

---------------------------------------------------------------------------
(* Bounds of the model.                                                    *)

\* Element records in one schema source (over all files and lists).
MaxRecords == 2

\* Element records in one source of the embedding batch.
MaxEmbedRecords == 3

\* Largest max_depth handed to generate_message.
MaxDepth == 2

\* Depth at which the interpreter ends a recursion with RecursionError.
RecursionLimit == 4

\* Element records in one source of a generator call followed frame by frame.
MaxRunRecords == 2

---------------------------------------------------------------------------
(* Python values.                                                          *)

\* Python's None, as returned by dict.get for an absent key.
None == "<None>"

\* dict.get(k, d)
Get(r, k, d) == IF k \in DOMAIN r THEN r[k] ELSE d

\* Truthiness of a string-or-None value: `if name`.
Truthy(v) == v # None /\ v # ""

\* `sub in s` for strings.
Contains(s, sub) ==
    \E i \in 1..(Len(s) + 1) :
        /\ i + Len(sub) - 1 <= Len(s)
        /\ SubSeq(s, i, i + Len(sub) - 1) = sub

Min(a, b) == IF a <= b THEN a ELSE b

\* seq[:n]
Take(seq, n) == SubSeq(seq, 1, Min(n, Len(seq)))

\* The empty dict.
EmptyDict == [k \in {} |-> None]

\* d[k] = v
DictSet(d, k, v) == [x \in DOMAIN d \cup {k} |-> IF x = k THEN v ELSE d[x]]

---------------------------------------------------------------------------
(* The schema source: the parsed content of the input file.                *)

FileIds == <<"f1.xsd", "f2.xsd">>

\* A child entry of an element's `children` list.
Kid(n, mo) == [name |-> n, minOccurs |-> mo]

KidNoMin(n) == [name |-> n]

ReqAttr == [k |-> "id", v |-> [use |-> "required"]]

OptAttr == [k |-> "scheme", v |-> [use |-> "optional"]]

\* The element records the sources are built from.
ElementPool ==
    { [name |-> "a", type |-> "xs:string", documentation |-> "doc a",
       attributes |-> <<ReqAttr, OptAttr>>, minOccurs |-> "0",
       maxOccurs |-> "unbounded"],
      [name |-> "a", type |-> "Message",
       children |-> <<Kid("b", "1"), Kid("A", "0"), Kid("z", "1")>>],
      [name |-> "a", attributes |-> <<OptAttr, ReqAttr>>,
       children |-> <<Kid("b", "1"), KidNoMin("a")>>],
      [name |-> "b", type |-> "SideEnum", documentation |-> "doc b"],
      [name |-> "b", type |-> "xs:string", children |-> <<Kid("a", "2")>>],
      [name |-> "b", children |-> <<Kid("b", "1"), Kid("A", "1")>>],
      [name |-> "A", documentation |-> ""],
      [name |-> "", type |-> "xs:string", documentation |-> "empty name"],
      [type |-> "xs:string", documentation |-> "no name"] }

ComplexTypeNames == <<"T1", "T2">>

\* Lists of a file: 1 = elements, 2 and 3 = the children of its two
\* complex types.
ListsPerFile == 1 + Len(ComplexTypeNames)

NumLists == Len(FileIds) * ListsPerFile

ListOf(f, l) == (f - 1) * ListsPerFile + l

\* Which list each of n records goes to: non-decreasing, so that the
\* records are laid out in the order of the lists.
Placements(n) ==
    { p \in [1..n -> 1..NumLists] : \A i \in 1..n : \A j \in 1..n : i <= j => p[i] <= p[j] }

RECURSIVE PickPlaced(_, _, _, _)
PickPlaced(p, rs, l, i) ==
    IF i > Len(rs) THEN <<>>
    ELSE IF p[i] = l THEN <<rs[i]>> \o PickPlaced(p, rs, l, i + 1)
    ELSE PickPlaced(p, rs, l, i + 1)

\* The content record of file f: its top-level elements and two complex
\* types, the second without documentation.
FileContent(p, rs, f) ==
    [t |-> "object",
     o |-> [elements |-> PickPlaced(p, rs, ListOf(f, 1), 1),
            complexTypes |->
              << [name |-> ComplexTypeNames[1], documentation |-> "doc T1",
                  children |-> PickPlaced(p, rs, ListOf(f, 2), 1)],
                 [name |-> ComplexTypeNames[2],
                  children |-> PickPlaced(p, rs, ListOf(f, 3), 1)] >>]]

\* The mapping file identifier -> content, in mapping order.
SourceOf(p, rs) ==
    [t |-> "object",
     items |-> [f \in 1..Len(FileIds) |-> [k |-> FileIds[f], v |-> FileContent(p, rs, f)]]]

\* f is a readable JSON file holding a source of at most max records of
\* the pool.
IsSourceFile(f, pool, max) ==
    \E n \in 0..max : \E p \in Placements(n) : \E rs \in [1..n -> pool] :
        f = [kind |-> "json", json |-> SourceOf(p, rs)]

\* Valid JSON that is not the expected structure: not a mapping at the top,
\* a file entry that is no record, and a mapping without the expected keys.
JsonArray == [t |-> "array"]

JsonBadEntry ==
    [t |-> "object",
     items |-> << [k |-> "f1.xsd",
                   v |-> [t |-> "object", o |-> [elements |-> <<[name |-> "a"]>>]]],
                  [k |-> "f2.xsd", v |-> [t |-> "number"]] >>]

JsonNoKeys ==
    [t |-> "object",
     items |-> << [k |-> "f1.xsd", v |-> [t |-> "object", o |-> EmptyDict]] >>]

\* Input files that do not hold a source: absent, unreadable, not JSON, or
\* JSON of another structure.
OtherFiles ==
    { [kind |-> "missing"], [kind |-> "unreadable"], [kind |-> "notjson"] }
    \cup { [kind |-> "json", json |-> j] : j \in {JsonArray, JsonBadEntry, JsonNoKeys} }

---------------------------------------------------------------------------
(* FpMLBaseModel: the index builder.                                        *)

TopLevel == "Top-Level Element"

\* _extract_details: the descriptor of one element record.
ExtractDetails(element, xsd_file, location, type_doc) ==
    [source_xsd |-> xsd_file,
     data_type |-> Get(element, "type", "N/A"),
     description |-> Get(element, "documentation",
                         IF type_doc # "" THEN type_doc ELSE "No description available"),
     attributes |-> Get(element, "attributes", <<>>),
     children |-> Get(element, "children", <<>>),
     minOccurs |-> Get(element, "minOccurs", "1"),
     maxOccurs |-> Get(element, "maxOccurs", "1"),
     location_type |-> location]

\* IsNewTag without the membership test: every record overwrites.
IsNewTagLastWins(model, tag_name) == Truthy(tag_name)

\* `tag_name and tag_name not in model`
IsNewTag(model, tag_name) == Truthy(tag_name) /\ tag_name \notin DOMAIN model

\* process_element_list, from the i-th element on.
RECURSIVE ProcessElementList(_, _, _, _, _, _)
ProcessElementList(model, elements, i, xsd_file, location, type_doc) ==
    IF i > Len(elements) THEN model
    ELSE LET element == elements[i]
             tag_name == Get(element, "name", None)
             next == IF IsNewTag(model, tag_name)
                     THEN DictSet(model, tag_name, ExtractDetails(element, xsd_file, location, type_doc))
                     ELSE model
         IN  ProcessElementList(next, elements, i + 1, xsd_file, location, type_doc)

\* The loop over a file's complex types, from the j-th on.
RECURSIVE ProcessComplexTypes(_, _, _, _)
ProcessComplexTypes(model, types, j, xsd_file) ==
    IF j > Len(types) THEN model
    ELSE LET type_def == types[j]
             type_name == Get(type_def, "name", None)
             type_doc == Get(type_def, "documentation", "No description available for complex type.")
             next == ProcessElementList(model, Get(type_def, "children", <<>>), 1, xsd_file,
                                        "Child of " \o type_name, type_doc)
         IN  ProcessComplexTypes(next, types, j + 1, xsd_file)

\* The loop over xsd_data.items(), from the i-th file on.  A file entry that
\* is no record has no .get: AttributeError, outside the try block.
RECURSIVE ProcessFiles(_, _, _)
ProcessFiles(model, items, i) ==
    IF i > Len(items) THEN [raised |-> FALSE, model |-> model]
    ELSE LET xsd_file == items[i].k
             content == items[i].v
         IN  IF content.t # "object" THEN [raised |-> TRUE, model |-> EmptyDict]
             ELSE LET tops == ProcessElementList(model, Get(content.o, "elements", <<>>), 1,
                                                 xsd_file, TopLevel, "")
                      all == ProcessComplexTypes(tops, Get(content.o, "complexTypes", <<>>), 1, xsd_file)
                  IN  ProcessFiles(all, items, i + 1)

\* open() and json.load(): whether the try block raises.
LoadFails(f) == f.kind \in {"missing", "unreadable", "notjson"}

\* _build_model: the index, or the exception that leaves the constructor.
BuildModel(f) ==
    IF LoadFails(f) THEN [raised |-> FALSE, model |-> EmptyDict]
    ELSE IF f.json.t # "object" THEN [raised |-> TRUE, model |-> EmptyDict]
    ELSE ProcessFiles(EmptyDict, f.json.items, 1)

---------------------------------------------------------------------------
(* FpMLBaseModel.lookup_tag                                                *)

\* `details = self.data.get(tag_name)` followed by `if details`.
HasDetails(index, tag_name) == tag_name \in DOMAIN index /\ DOMAIN index[tag_name] # {}

\* ChildrenSample with the slice one entry too long.
ChildrenSampleThree(children) == Take(children, 3)

\* details.get('children', [])[:2]
ChildrenSample(children) == Take(children, 2)

LookupTagResult(index, tag_name) ==
    IF HasDetails(index, tag_name)
    THEN LET details == index[tag_name]
         IN  ("Tag Name" :> tag_name)
             @@ ("Source XSD" :> Get(details, "source_xsd", None))
             @@ ("Data Type" :> Get(details, "data_type", None))
             @@ ("Location" :> Get(details, "location_type", None))
             @@ ("Description" :> Get(details, "description", "N/A"))
             @@ ("Attributes" :> Get(details, "attributes", <<>>))
             @@ ("Children Count" :> Len(Get(details, "children", <<>>)))
             @@ ("Children Sample (First 2)" :> ChildrenSample(Get(details, "children", <<>>)))
    ELSE ("status" :> ("Tag '" \o tag_name \o "' not found in the Base Model."))

---------------------------------------------------------------------------
(* Generated text: a sequence of tokens.                                   *)

\* n spaces of indentation.
Sp(n) == [k |-> "sp", n |-> n]

NL == [k |-> "nl"]

\* An opening tag with its attributes, written by the call at depth d.
Open(tag, attrs, d) == [k |-> "open", tag |-> tag, attrs |-> attrs, d |-> d]

Close(tag) == [k |-> "close", tag |-> tag]

Text(s) == [k |-> "text", s |-> s]

\* '<?xml version="1.0" encoding="utf-8"?>'
Decl == [k |-> "decl"]

Attr(n, v) == [n |-> n, v |-> v]

\* unit * n, the unit being n spaces wide.
Pad(width, n) == IF n = 0 THEN <<>> ELSE <<Sp(width * n)>>

IsSpace(tok) == tok.k \in {"sp", "nl"}

RECURSIVE LStrip(_)
LStrip(toks) ==
    IF toks # <<>> /\ IsSpace(Head(toks)) THEN LStrip(Tail(toks)) ELSE toks

RECURSIVE RStrip(_)
RStrip(toks) ==
    IF toks # <<>> /\ IsSpace(toks[Len(toks)]) THEN RStrip(SubSeq(toks, 1, Len(toks) - 1)) ELSE toks

\* str.strip()
Strip(toks) == RStrip(LStrip(toks))

RECURSIVE AttrText(_, _)
AttrText(attrs, i) ==
    IF i > Len(attrs) THEN ""
    ELSE " " \o attrs[i].n \o "=\"" \o attrs[i].v \o "\"" \o AttrText(attrs, i + 1)

\* The characters of a token that is no white space.
TokenText(tok) ==
    CASE tok.k = "open" -> "<" \o tok.tag \o AttrText(tok.attrs, 1) \o ">"
      [] tok.k = "close" -> "</" \o tok.tag \o ">"
      [] tok.k = "text" -> tok.s
      [] OTHER -> ""

\* `sub in text`, for a sub without '<', '>' or white space: it lies within
\* one token.
TextContains(toks, sub) == \E i \in 1..Len(toks) : Contains(TokenText(toks[i]), sub)

\* `"\n" in text`
HasNewline(toks) == \E i \in 1..Len(toks) : toks[i].k = "nl"

\* text.strip().endswith("</tag>")
EndsWithClose(toks, tag) ==
    LET st == Strip(toks) IN st # <<>> /\ st[Len(st)] = Close(tag)

---------------------------------------------------------------------------
(* FpMLBaseModel.generate_message: the template generator                  *)
(* (src/fpml_semantic_model.py).                                           *)

\* DepthExceeded with the root counted as depth 0.
DepthExceededFromZero(depth, max_depth) == depth > max_depth + 1

\* DepthExceeded with the cutoff two levels late.
DepthExceededLate(depth, max_depth) == depth > max_depth + 2

\* DepthExceeded without the cutoff.
DepthNeverExceeded(depth, max_depth) == FALSE

\* `if depth > max_depth: return ""`
DepthExceeded(depth, max_depth) == depth > max_depth

\* The mock values of the required attributes, in the dict's order.
RECURSIVE RequiredAttrs(_, _)
RequiredAttrs(attributes, i) ==
    IF i > Len(attributes) THEN <<>>
    ELSE (IF Get(attributes[i].v, "use", None) = "required"
          THEN <<Attr(attributes[i].k, "VALUE_REQUIRED")>> ELSE <<>>)
         \o RequiredAttrs(attributes, i + 1)

\* The last lines of _build_xml_recursively: what is returned for the
\* fragment built so far.
FinishFragment(xml_fragment, tag_name, indent) ==
    IF TextContains(xml_fragment, "PLACEHOLDER") \/ EndsWithClose(xml_fragment, tag_name)
    THEN (IF ~HasNewline(xml_fragment) THEN Strip(xml_fragment) ELSE xml_fragment)
    ELSE xml_fragment \o <<NL>> \o indent \o <<Close(tag_name)>>

RECURSIVE BuildXmlRecursively(_, _, _, _)
RECURSIVE BuildXmlChildren(_, _, _, _, _)

\* _build_xml_recursively(tag_name, depth, max_depth)
BuildXmlRecursively(index, tag_name, depth, max_depth) ==
    IF DepthExceeded(depth, max_depth) THEN <<>>
    ELSE IF ~HasDetails(index, tag_name) THEN <<>>
    ELSE LET details == index[tag_name]
             indent == Pad(2, depth)
             children == Get(details, "children", <<>>)
             data_type == Get(details, "data_type", None)
             start == indent \o <<Open(tag_name, RequiredAttrs(Get(details, "attributes", <<>>), 1), depth)>>
             xml_fragment ==
                IF data_type \notin {"N/A", None} /\ children = <<>>
                THEN start \o <<Text("PLACEHOLDER_" \o data_type)>>
                ELSE IF children # <<>>
                THEN start \o <<NL>>
                     \o BuildXmlChildren(index, children, 1, depth, max_depth)
                     \o indent \o <<Close(tag_name)>>
                ELSE start \o <<Close(tag_name)>>
         IN  FinishFragment(xml_fragment, tag_name, indent)

\* The loop `for child in details['children']`, from the i-th child on.
BuildXmlChildren(index, children, i, depth, max_depth) ==
    IF i > Len(children) THEN <<>>
    ELSE BuildXmlRecursively(index, Get(children[i], "name", None), depth + 1, max_depth)
         \o BuildXmlChildren(index, children, i + 1, depth, max_depth)

FpmlNs == "http://www.fpml.org/FpML-5/confirmation"

EnvelopeTag == "fpml:dataDocument"

\* generate_message(root_tag, max_depth)
GenerateMessageResult(index, root_tag, max_depth) ==
    IF root_tag \notin DOMAIN index
    THEN <<Text("Error: Root tag '" \o root_tag \o "' not found in the Base Model.")>>
    ELSE <<Decl, NL, Open(EnvelopeTag, <<Attr("xmlns:fpml", FpmlNs), Attr("version", "5-12")>>, 0), NL>>
         \o BuildXmlRecursively(index, root_tag, 1, max_depth)
         \o <<NL, Close(EnvelopeTag)>>

---------------------------------------------------------------------------
(* FpMLBaseModel.generate_xml_message: the minimal generator.              *)

DigitValue(c) ==
    CASE c = "0" -> 0 [] c = "1" -> 1 [] c = "2" -> 2 [] c = "3" -> 3 [] c = "4" -> 4
      [] c = "5" -> 5 [] c = "6" -> 6 [] c = "7" -> 7 [] c = "8" -> 8 [] c = "9" -> 9

\* int(s) for a string of decimal digits.
RECURSIVE ParseInt(_)
ParseInt(s) ==
    IF Len(s) = 0 THEN 0
    ELSE 10 * ParseInt(SubSeq(s, 1, Len(s) - 1)) + DigitValue(SubSeq(s, Len(s), Len(s)))

\* IsRequired with the index's default of minOccurs, "1".
IsRequiredByDefault(child) == ParseInt(Get(child, "minOccurs", "1")) >= 1

\* `int(child.get('minOccurs', '0')) >= 1`
IsRequired(child) == ParseInt(Get(child, "minOccurs", "0")) >= 1

\* The placeholder of a tag without rendered children.
Placeholder(data_type) ==
    IF Contains(data_type, "Enum")
    THEN "ENUM_VALUE_FROM_" \o data_type
    ELSE "'" \o data_type \o "_VALUE'"

\* A recursion that went past the interpreter's limit: RecursionError.
RecursionError == [err |-> TRUE, s |-> <<>>]

Returned(toks) == [err |-> FALSE, s |-> toks]

RECURSIVE GenerateXmlSnippet(_, _, _, _)
RECURSIVE SnippetChildren(_, _, _, _, _)

\* _generate_xml_snippet(tag_name, indent), called with `frames` calls of it
\* on the stack.
GenerateXmlSnippet(index, tag_name, indent, frames) ==
    IF frames >= RecursionLimit THEN RecursionError
    ELSE IF ~HasDetails(index, tag_name) THEN Returned(<<>>)
    ELSE LET details == index[tag_name]
             padding == Pad(4, indent)
             children == Get(details, "children", <<>>)
             inner == IF children # <<>>
                      THEN SnippetChildren(index, children, 1, indent, frames)
                      ELSE Returned(<<>>)
         IN  IF inner.err THEN RecursionError
             ELSE IF inner.s # <<>>
             THEN Returned(padding \o <<Open(tag_name, <<>>, indent), NL>> \o inner.s
                           \o padding \o <<Close(tag_name), NL>>)
             ELSE Returned(padding
                           \o <<Open(tag_name, <<>>, indent),
                                Text(Placeholder(Get(details, "data_type", "xs:string"))),
                                Close(tag_name), NL>>)

\* The loop `for child in children`, from the i-th child on.
SnippetChildren(index, children, i, indent, frames) ==
    IF i > Len(children) THEN Returned(<<>>)
    ELSE LET child == children[i]
             first == IF IsRequired(child)
                      THEN GenerateXmlSnippet(index, Get(child, "name", None), indent + 1, frames + 1)
                      ELSE Returned(<<>>)
         IN  IF first.err THEN RecursionError
             ELSE LET rest == SnippetChildren(index, children, i + 1, indent, frames)
                  IN  IF rest.err THEN RecursionError ELSE Returned(first.s \o rest.s)

\* The precondition of generate_xml_message.
NotApplicable(index, root_tag) ==
    \/ ~HasDetails(index, root_tag)
    \/ Get(index[root_tag], "location_type", None) # TopLevel

\* generate_xml_message(root_tag): the dict returned, unless the recursion
\* raised.
GenerateXmlMessageResult(index, root_tag) ==
    IF NotApplicable(index, root_tag)
    THEN [raised |-> FALSE,
          out |-> ("status" :> ("Root tag '" \o root_tag
                                \o "' not found or is not a top-level message element."))]
    ELSE LET content == GenerateXmlSnippet(index, root_tag, 1, 0)
         IN  IF content.err THEN [raised |-> TRUE, out |-> EmptyDict]
             ELSE [raised |-> FALSE,
                   out |-> ("xml_snippet" :>
                            (<<Decl, NL, Open(root_tag, <<Attr("xmlns", FpmlNs)>>, 0), NL>>
                             \o Strip(content.s)
                             \o <<NL, Close(root_tag), NL>>))]

---------------------------------------------------------------------------
(* The state machine of one FpMLBaseModel object.                          *)

\* Root tags handed to the generators.
Roots == {"a", "A", "b", "z"}

\* Tag names handed to lookup_tag.
Queries == Roots \cup {""}

NoResult == [op |-> "none"]

\* No generator call is followed frame by frame.
RunIdle ==
    /\ call = NoResult
    /\ stack = <<>>
    /\ rpc = "idle"

EmbedIdle ==
    /\ edata = EmptyDict
    /\ epc = "idle"
    /\ key_to_prompt_map = <<>>
    /\ all_prompts = <<>>
    /\ generated_embeddings = <<>>

Init ==
    /\ \/ file \in OtherFiles
       \/ IsSourceFile(file, ElementPool, MaxRecords)
    /\ ctor = "new"
    /\ data = EmptyDict
    /\ res = NoResult
    /\ EmbedIdle
    /\ RunIdle

\* FpMLBaseModel(file_path): __init__ runs _build_model.
Construct ==
    /\ ctor = "new"
    /\ LET b == BuildModel(file)
       IN  /\ ctor' = IF b.raised THEN "raised" ELSE "built"
           /\ data' = b.model
    /\ UNCHANGED <<file, res>>
    /\ UNCHANGED embedVars
    /\ UNCHANGED runVars

\* The caller holds no result: the calls are synchronous, one at a time.
CallerIdle == ctor = "built" /\ res = NoResult

\* lookup_tag(tag_name)
LookupTag(tag_name) ==
    /\ CallerIdle
    /\ res' = [op |-> "lookup_tag", tag |-> tag_name, out |-> LookupTagResult(data, tag_name)]
    /\ UNCHANGED <<file, ctor, data>>
    /\ UNCHANGED embedVars
    /\ UNCHANGED runVars

\* generate_message(root_tag, max_depth)
GenerateMessage(root_tag, max_depth) ==
    /\ CallerIdle
    /\ res' = [op |-> "generate_message", tag |-> root_tag, max_depth |-> max_depth,
               out |-> GenerateMessageResult(data, root_tag, max_depth)]
    /\ UNCHANGED <<file, ctor, data>>
    /\ UNCHANGED embedVars
    /\ UNCHANGED runVars

\* generate_xml_message(root_tag)
GenerateXmlMessage(root_tag) ==
    /\ CallerIdle
    /\ LET r == GenerateXmlMessageResult(data, root_tag)
       IN  res' = [op |-> "generate_xml_message", tag |-> root_tag,
                   raised |-> r.raised, out |-> r.out]
    /\ UNCHANGED <<file, ctor, data>>
    /\ UNCHANGED embedVars
    /\ UNCHANGED runVars

\* The caller is done with the result of its call.
Discard ==
    /\ res # NoResult
    /\ res' = NoResult
    /\ UNCHANGED <<file, ctor, data>>
    /\ UNCHANGED embedVars
    /\ UNCHANGED runVars

Next ==
    \/ Construct
    \/ Discard
    \/ \E q \in Queries : LookupTag(q)
    \/ \E q \in Roots : \E n \in 0..MaxDepth : GenerateMessage(q, n)
    \/ \E q \in Roots : GenerateXmlMessage(q)

Spec == Init /\ [][Next]_vars

---------------------------------------------------------------------------
(* embedding_generator: the prompt extractor and the embedding batch.      *)

\* The element records the embedding sources are built from.
EmbedPool ==
    { [name |-> "a", documentation |-> "d1"],
      [name |-> "a", documentation |-> "d2", type |-> "xs:string"],
      [name |-> "a"],
      [name |-> "b", documentation |-> ""],
      [documentation |-> "d1"],
      [name |-> "", documentation |-> "d2"] }

\* d[k] = v on a dict whose order of insertion matters: a sequence of
\* entries.  An existing key keeps its place and takes the new value.
OrderedSet(d, k, v) ==
    IF \E i \in 1..Len(d) : d[i].k = k
    THEN [i \in 1..Len(d) |-> IF d[i].k = k THEN [k |-> k, v |-> v] ELSE d[i]]
    ELSE Append(d, [k |-> k, v |-> v])

\* list(d.keys())
Keys(d) == [i \in 1..Len(d) |-> d[i].k]

\* Included without the test of the documentation.
IncludedNameOnly(name, documentation) == Truthy(name)

\* `if name and documentation`
Included(name, documentation) == Truthy(name) /\ Truthy(documentation)

UniqueKey(filename, name) == filename \o "/" \o name

Prompt(filename, name, documentation) ==
    "XSD File: " \o filename \o ". Element Name: " \o name \o ". "
    \o "Function/Documentation: " \o documentation

\* The loop over a file's elements, from the i-th on; acc is the pair
\* (key_to_prompt_map, all_prompts).
RECURSIVE ExtractFromElements(_, _, _, _)
ExtractFromElements(acc, filename, elements, i) ==
    IF i > Len(elements) THEN acc
    ELSE LET name == Get(elements[i], "name", None)
             documentation == Get(elements[i], "documentation", None)
             next == IF Included(name, documentation)
                     THEN [map |-> OrderedSet(acc.map, UniqueKey(filename, name),
                                              Prompt(filename, name, documentation)),
                           prompts |-> Append(acc.prompts, Prompt(filename, name, documentation))]
                     ELSE acc
         IN  ExtractFromElements(next, filename, elements, i + 1)

\* The loop over data.items(), from the i-th file on.
RECURSIVE ExtractFromFiles(_, _, _)
ExtractFromFiles(acc, items, i) ==
    IF i > Len(items) THEN acc
    ELSE ExtractFromFiles(
             ExtractFromElements(acc, items[i].k, Get(items[i].v.o, "elements", <<>>), 1),
             items, i + 1)

\* extract_prompts(data)
ExtractPrompts(d) == ExtractFromFiles([map |-> <<>>, prompts |-> <<>>], d, 1)

\* The vector the embedding model computes from a prompt.
Vec(prompt) == [of |-> prompt]

\* model.encode(prompts_list): one vector per prompt, in input order.
Encode(prompts) == [i \in 1..Len(prompts) |-> Vec(prompts[i])]

\* The loop `for i, key in enumerate(unique_keys)`.
MapEmbeddings(unique_keys, embeddings) ==
    [i \in 1..Len(unique_keys) |-> [k |-> unique_keys[i], v |-> embeddings[i]]]

\* load_data: the parsed content, or {} when the file cannot be loaded.
LoadData(f) == IF LoadFails(f) THEN <<>> ELSE f.json.items

ModelIdle ==
    /\ ctor = "new"
    /\ data = EmptyDict
    /\ res = NoResult

InitEmbedding ==
    /\ \/ file \in { [kind |-> "missing"], [kind |-> "notjson"] }
       \/ IsSourceFile(file, EmbedPool, MaxEmbedRecords)
    /\ ModelIdle
    /\ edata = <<>>
    /\ epc = "start"
    /\ key_to_prompt_map = <<>>
    /\ all_prompts = <<>>
    /\ generated_embeddings = <<>>
    /\ RunIdle

\* __main__: xsd_data = load_data(INPUT_FILENAME); `if xsd_data`.
EmbedLoad ==
    /\ epc = "start"
    /\ edata' = LoadData(file)
    /\ epc' = IF edata' = <<>> THEN "done" ELSE "loaded"
    /\ UNCHANGED <<key_to_prompt_map, all_prompts, generated_embeddings>>
    /\ UNCHANGED modelVars
    /\ UNCHANGED runVars

\* generate_and_save_embeddings: extract_prompts and `if not prompts_list`.
EmbedExtract ==
    /\ epc = "loaded"
    /\ LET r == ExtractPrompts(edata)
       IN  /\ key_to_prompt_map' = r.map
           /\ all_prompts' = r.prompts
           /\ epc' = IF r.prompts = <<>> THEN "done" ELSE "extracted"
    /\ UNCHANGED <<edata, generated_embeddings>>
    /\ UNCHANGED modelVars
    /\ UNCHANGED runVars

\* SentenceTransformer(MODEL_NAME): the model loads, or the batch aborts.
EmbedLoadEncoder(ok) ==
    /\ epc = "extracted"
    /\ epc' = IF ok THEN "encoder" ELSE "done"
    /\ UNCHANGED <<edata, key_to_prompt_map, all_prompts, generated_embeddings>>
    /\ UNCHANGED modelVars
    /\ UNCHANGED runVars

\* model.encode and the mapping of the vectors to the keys.
EmbedEncode ==
    /\ epc = "encoder"
    /\ generated_embeddings' = MapEmbeddings(Keys(key_to_prompt_map), Encode(all_prompts))
    /\ epc' = "mapped"
    /\ UNCHANGED <<edata, key_to_prompt_map, all_prompts>>
    /\ UNCHANGED modelVars
    /\ UNCHANGED runVars

\* json.dump to the output file, or IOError.
EmbedSave(ok) ==
    /\ epc = "mapped"
    /\ epc' = IF ok THEN "saved" ELSE "done"
    /\ UNCHANGED <<edata, key_to_prompt_map, all_prompts, generated_embeddings>>
    /\ UNCHANGED modelVars
    /\ UNCHANGED runVars

NextEmbedding ==
    \/ EmbedLoad
    \/ EmbedExtract
    \/ \E ok \in BOOLEAN : EmbedLoadEncoder(ok)
    \/ EmbedEncode
    \/ \E ok \in BOOLEAN : EmbedSave(ok)

SpecEmbedding == InitEmbedding /\ [][NextEmbedding]_vars

---------------------------------------------------------------------------
(* The recursion of the two generators, one call and one return of the     *)
(* recursive function at a time.                                           *)

\* The element records the sources of these calls are built from: the
\* records with one or two children, and a leaf.
RunPool ==
    { r \in ElementPool :
        \/ Len(Get(r, "children", <<>>)) \in {1, 2}
        \/ Get(r, "type", None) = "SideEnum" }

\* max_depth values handed to generate_message: negative, zero, one that
\* lets the recursion go round a cycle, and one beyond the interpreter's
\* recursion limit.
RunDepths == {0 - 1, 0, MaxDepth, RecursionLimit + 1}

\* The frame of a call of the recursive function: its tag, its depth (or
\* indent), and the child its loop is at.
Frame(tag_name, level) == [tag |-> tag_name, level |-> level, i |-> 1]

\* The generator call is over: it returned, or an exception left it.
Done == rpc \in {"returned", "raised"}

\* _build_xml_recursively(tag_name, depth, max_depth) returns without a
\* recursive call: cut off, not indexed, or without children.
BuildReturnsAtOnce(index, tag_name, depth, max_depth) ==
    \/ DepthExceeded(depth, max_depth)
    \/ ~HasDetails(index, tag_name)
    \/ Get(index[tag_name], "children", <<>>) = <<>>

\* _generate_xml_snippet(tag_name, indent) returns without a recursive call:
\* not indexed, or without children.
SnippetReturnsAtOnce(index, tag_name) ==
    \/ ~HasDetails(index, tag_name)
    \/ Get(index[tag_name], "children", <<>>) = <<>>

\* A call of the recursive function made with the frames stk on the stack:
\* RecursionError at the interpreter's limit, which unwinds every frame;
\* else the call returns at once or its frame is pushed.
EnterCall(stk, at_once, frame) ==
    IF Len(stk) >= RecursionLimit THEN [stack |-> <<>>, rpc |-> "raised"]
    ELSE IF at_once THEN [stack |-> stk, rpc |-> IF stk = <<>> THEN "returned" ELSE "running"]
    ELSE [stack |-> Append(stk, frame), rpc |-> "running"]

\* The frames after the innermost call returned.
ReturnFrom(stk) ==
    [stack |-> SubSeq(stk, 1, Len(stk) - 1), rpc |-> IF Len(stk) = 1 THEN "returned" ELSE "running"]

\* The stack with the loop of the innermost frame moved to its next child.
NextChild(stk) == [stk EXCEPT ![Len(stk)].i = @ + 1]

InitRun ==
    /\ IsSourceFile(file, RunPool, MaxRunRecords)
    /\ ModelIdle
    /\ EmbedIdle
    /\ RunIdle

\* generate_message(root_tag, max_depth) up to its call of
\* _build_xml_recursively(root_tag, 1, max_depth).
StartGenerateMessage(root_tag, max_depth) ==
    /\ ctor = "built"
    /\ rpc = "idle"
    /\ call' = [op |-> "generate_message", tag |-> root_tag, max_depth |-> max_depth]
    /\ LET e == IF root_tag \notin DOMAIN data
                THEN [stack |-> <<>>, rpc |-> "returned"]
                ELSE EnterCall(<<>>, BuildReturnsAtOnce(data, root_tag, 1, max_depth),
                               Frame(root_tag, 1))
       IN  stack' = e.stack /\ rpc' = e.rpc
    /\ UNCHANGED modelVars
    /\ UNCHANGED embedVars

\* generate_xml_message(root_tag) up to its call of
\* _generate_xml_snippet(root_tag, 1).
StartGenerateXmlMessage(root_tag) ==
    /\ ctor = "built"
    /\ rpc = "idle"
    /\ call' = [op |-> "generate_xml_message", tag |-> root_tag]
    /\ LET e == IF NotApplicable(data, root_tag)
                THEN [stack |-> <<>>, rpc |-> "returned"]
                ELSE EnterCall(<<>>, SnippetReturnsAtOnce(data, root_tag), Frame(root_tag, 1))
       IN  stack' = e.stack /\ rpc' = e.rpc
    /\ UNCHANGED modelVars
    /\ UNCHANGED embedVars

\* One turn of the loop `for child in details['children']` of
\* _build_xml_recursively: the recursive call for the child.
BuildXmlStep ==
    /\ rpc = "running"
    /\ call.op = "generate_message"
    /\ LET top == stack[Len(stack)]
           children == data[top.tag].children
       IN  /\ top.i <= Len(children)
           /\ LET child_name == Get(children[top.i], "name", None)
                  e == EnterCall(NextChild(stack),
                                 BuildReturnsAtOnce(data, child_name, top.level + 1, call.max_depth),
                                 Frame(child_name, top.level + 1))
              IN  stack' = e.stack /\ rpc' = e.rpc
    /\ UNCHANGED call
    /\ UNCHANGED modelVars
    /\ UNCHANGED embedVars

\* The loop of _build_xml_recursively is over: the call returns.
BuildXmlReturn ==
    /\ rpc = "running"
    /\ call.op = "generate_message"
    /\ LET top == stack[Len(stack)]
       IN  top.i > Len(data[top.tag].children)
    /\ stack' = ReturnFrom(stack).stack
    /\ rpc' = ReturnFrom(stack).rpc
    /\ UNCHANGED call
    /\ UNCHANGED modelVars
    /\ UNCHANGED embedVars

\* One turn of the loop `for child in children` of _generate_xml_snippet:
\* the recursive call for a required child, nothing for another child.
SnippetStep ==
    /\ rpc = "running"
    /\ call.op = "generate_xml_message"
    /\ LET top == stack[Len(stack)]
           children == data[top.tag].children
       IN  /\ top.i <= Len(children)
           /\ LET child == children[top.i]
                  child_name == Get(child, "name", None)
                  e == IF IsRequired(child)
                       THEN EnterCall(NextChild(stack), SnippetReturnsAtOnce(data, child_name),
                                      Frame(child_name, top.level + 1))
                       ELSE [stack |-> NextChild(stack), rpc |-> "running"]
              IN  stack' = e.stack /\ rpc' = e.rpc
    /\ UNCHANGED call
    /\ UNCHANGED modelVars
    /\ UNCHANGED embedVars

\* The loop of _generate_xml_snippet is over: the call returns.
SnippetReturn ==
    /\ rpc = "running"
    /\ call.op = "generate_xml_message"
    /\ LET top == stack[Len(stack)]
       IN  top.i > Len(data[top.tag].children)
    /\ stack' = ReturnFrom(stack).stack
    /\ rpc' = ReturnFrom(stack).rpc
    /\ UNCHANGED call
    /\ UNCHANGED modelVars
    /\ UNCHANGED embedVars

NextRun ==
    \/ Construct
    \/ \E q \in Roots : \E n \in RunDepths : StartGenerateMessage(q, n)
    \/ \E q \in Roots : StartGenerateXmlMessage(q)
    \/ BuildXmlStep
    \/ BuildXmlReturn
    \/ SnippetStep
    \/ SnippetReturn

\* The interpreter runs a call that has begun until it is over.
SpecRun == InitRun /\ [][NextRun]_vars /\ WF_vars(NextRun)

---------------------------------------------------------------------------
(* What the properties speak about.                                        *)

\* The file holds the expected structure: a mapping from file identifier
\* to a record with 'elements' / 'complexTypes' lists.
ExpectedStructure(f) ==
    /\ f.kind = "json"
    /\ f.json.t = "object"
    /\ \A i \in 1..Len(f.json.items) :
          /\ f.json.items[i].v.t = "object"
          /\ DOMAIN f.json.items[i].v.o = {"elements", "complexTypes"}

ListEntries(elements, xsd_file, location, type_doc) ==
    [i \in 1..Len(elements) |->
        [rec |-> elements[i], file |-> xsd_file, location |-> location, type_doc |-> type_doc]]

RECURSIVE TypeEntries(_, _, _)
TypeEntries(types, j, xsd_file) ==
    IF j > Len(types) THEN <<>>
    ELSE ListEntries(types[j].children, xsd_file, "Child of " \o types[j].name,
                     Get(types[j], "documentation", "No description available for complex type."))
         \o TypeEntries(types, j + 1, xsd_file)

RECURSIVE FileEntries(_, _)
FileEntries(items, i) ==
    IF i > Len(items) THEN <<>>
    ELSE ListEntries(items[i].v.o.elements, items[i].k, TopLevel, "")
         \o TypeEntries(items[i].v.o.complexTypes, 1, items[i].k)
         \o FileEntries(items, i + 1)

\* The element records of the source in traversal order: files in mapping
\* order; within a file the top-level elements, then each complex type's
\* children.
Traversal(f) == FileEntries(f.json.items, 1)

NameOf(entry) == Get(entry.rec, "name", None)

\* The first record of the traversal that carries the name.
FirstCarrying(trav, tag) ==
    CHOOSE i \in 1..Len(trav) : NameOf(trav[i]) = tag /\ \A j \in 1..(i - 1) : NameOf(trav[j]) # tag

\* The tokens of a generated text that open an element.
Opens(toks) == { i \in 1..Len(toks) : toks[i].k = "open" }

\* Elements open before token i.
Balance(toks, i) ==
    Cardinality({ j \in 1..(i - 1) : toks[j].k = "open" })
    - Cardinality({ j \in 1..(i - 1) : toks[j].k = "close" })

\* The closing tag of the element opened at i, in a well-nested text.
MatchingClose(toks, i) ==
    CHOOSE j \in (i + 1)..Len(toks) :
        /\ toks[j].k = "close" /\ Balance(toks, j) = Balance(toks, i) + 1
        /\ \A m \in (i + 1)..(j - 1) :
              ~(toks[m].k = "close" /\ Balance(toks, m) = Balance(toks, i) + 1)

\* The names of the elements emitted directly under the element opened at i.
EmittedChildren(toks, i) ==
    { toks[j].tag : j \in { m \in (i + 1)..(MatchingClose(toks, i) - 1) :
                              toks[m].k = "open" /\ Balance(toks, m) = Balance(toks, i) + 1 } }

\* The names of the declared children of a tag whose minOccurs is >= 1.
DeclaredRequired(index, tag) ==
    LET children == index[tag].children
    IN  { children[i].name : i \in { m \in 1..Len(children) :
              "minOccurs" \in DOMAIN children[m] /\ ParseInt(children[m].minOccurs) >= 1 } }

\* The text generate_message returns for a depth that cuts the root off.
EmptyEnvelope ==
    <<Decl, NL, Open(EnvelopeTag, <<Attr("xmlns:fpml", FpmlNs), Attr("version", "5-12")>>, 0), NL,
      NL, Close(EnvelopeTag)>>

\* The tokens between the envelope's opening line and its closing line.
EnvelopeBody(toks) == SubSeq(toks, 5, Len(toks) - 2)

---------------------------------------------------------------------------
(* The properties.                                                         *)

\* C1 (first-writer-wins): once the index is built from a source, its keys
\* are the non-empty names of the source and the descriptor under each name
\* is the one extracted from the first record carrying that name in
\* traversal order: its file, location, data type and every other field.
C1_FirstWriterWins ==
    (ctor = "built" /\ ExpectedStructure(file)) =>
        LET trav == Traversal(file)
        IN  /\ DOMAIN data = { NameOf(trav[i]) : i \in 1..Len(trav) } \ {None, ""}
            /\ \A tag \in DOMAIN data :
                  LET first == trav[FirstCarrying(trav, tag)]
                  IN  /\ data[tag] = ExtractDetails(first.rec, first.file, first.location, first.type_doc)
                      /\ data[tag].source_xsd = first.file
                      /\ data[tag].data_type = Get(first.rec, "type", "N/A")
                      /\ data[tag].location_type = first.location
                      /\ data[tag].children = Get(first.rec, "children", <<>>)

\* Two files declare a top-level element "a" with different types, and the
\* index holds the first file's.
C1_Witness ==
    /\ ctor = "built" /\ ExpectedStructure(file)
    /\ \E i \in 1..Len(file.json.items[1].v.o.elements) :
       \E j \in 1..Len(file.json.items[2].v.o.elements) :
          LET e1 == file.json.items[1].v.o.elements[i]
              e2 == file.json.items[2].v.o.elements[j]
          IN  /\ Get(e1, "name", None) = "a" /\ Get(e2, "name", None) = "a"
              /\ Get(e1, "type", "N/A") # Get(e2, "type", "N/A")
              /\ data["a"].source_xsd = "f1.xsd"
              /\ data["a"].data_type = Get(e1, "type", "N/A")

\* C2 (load-failure degradation), as claimed: whenever the file is missing,
\* unreadable, not JSON or JSON without the expected structure, the
\* constructor completes without raising, the index is empty and every
\* lookup reports not-found.
C2_LoadFailureDegradation ==
    (ctor # "new" /\ ~ExpectedStructure(file)) =>
        /\ ctor = "built"
        /\ Cardinality(DOMAIN data) = 0
        /\ (res.op = "lookup_tag" => DOMAIN res.out = {"status"})

\* C3 (required-only filter), as claimed: under every element rendered by
\* generate_xml_message inside the envelope, the elements emitted are
\* exactly the declared children with minOccurs >= 1.
C3_RequiredOnlyFilter ==
    (res.op = "generate_xml_message" /\ ~res.raised /\ "xml_snippet" \in DOMAIN res.out) =>
        LET toks == res.out["xml_snippet"]
        IN  \A i \in Opens(toks) :
               Balance(toks, i) >= 1 =>
                  EmittedChildren(toks, i) = DeclaredRequired(data, toks[i].tag)

\* C4 (template tag closure), as claimed: in the text generate_message
\* returns for an indexed root, every opening tag is followed by a closing
\* tag of the same name.
C4_TagClosure ==
    (res.op = "generate_message" /\ res.tag \in DOMAIN data) =>
        \A i \in Opens(res.out) :
            \E j \in (i + 1)..Len(res.out) : res.out[j] = Close(res.out[i].tag)

\* C6 (template depth bound): the text generate_message(root, N) returns
\* holds no element written more than N levels below the root element (the
\* root is written by the call at depth 1).
C6_DepthBound ==
    (res.op = "generate_message" /\ res.tag \in DOMAIN data) =>
        \A i \in Opens(res.out) :
            res.out[i].tag # EnvelopeTag => res.out[i].d - 1 <= res.max_depth

\* An element at the deepest level written, whose indexed children were
\* cut off.
C6_Witness ==
    /\ res.op = "generate_message" /\ res.tag \in DOMAIN data /\ res.max_depth >= 2
    /\ \E i \in Opens(res.out) :
          /\ res.out[i].d = res.max_depth
          /\ \E m \in 1..Len(data[res.out[i].tag].children) :
                data[res.out[i].tag].children[m].name \in DOMAIN data

\* C7 (depth zero), as claimed: generate_message(root, 0) holds, inside the
\* envelope, the root's opening tag with its required attributes and no
\* other element.
C7_DepthZeroOpensRoot ==
    (res.op = "generate_message" /\ res.tag \in DOMAIN data /\ res.max_depth = 0) =>
        LET body == EnvelopeBody(res.out)
        IN  /\ \E i \in Opens(body) :
                  /\ body[i].tag = res.tag
                  /\ body[i].attrs = RequiredAttrs(data[res.tag].attributes, 1)
            /\ Cardinality(Opens(body)) = 1

\* C7, amended: generate_message(root, 0) returns the envelope with an empty
\* body: neither the root's opening tag nor any descendant.
C7_DepthZeroEmpty ==
    (res.op = "generate_message" /\ res.tag \in DOMAIN data /\ res.max_depth = 0) =>
        res.out = EmptyEnvelope

\* Depth zero for a root that has a required attribute and children.
C7_Witness ==
    /\ res.op = "generate_message" /\ res.tag \in DOMAIN data /\ res.max_depth = 0
    /\ RequiredAttrs(data[res.tag].attributes, 1) # <<>>
    /\ data[res.tag].children # <<>>

\* C8 (non-applicability), as claimed: generate_xml_message returns only a
\* status when the root is absent or not indexed as a top-level element,
\* and only an xml_snippet whenever it is indexed as a top-level element.
C8_NonApplicability ==
    res.op = "generate_xml_message" =>
        IF res.tag \in DOMAIN data /\ data[res.tag].location_type = TopLevel
        THEN ~res.raised /\ DOMAIN res.out = {"xml_snippet"}
        ELSE ~res.raised /\ DOMAIN res.out = {"status"}

\* C9 (lookup totality): lookup_tag returns a hit summary, with 'Tag Name'
\* and without 'status', exactly when the name is a key of the index, and
\* otherwise a status naming the tag; on a hit the sample has min(2, n)
\* entries and the count is n, the length of the descriptor's children.
C9_LookupTotality ==
    res.op = "lookup_tag" =>
        IF res.tag \in DOMAIN data
        THEN LET n == Len(data[res.tag].children)
             IN  /\ "Tag Name" \in DOMAIN res.out /\ "status" \notin DOMAIN res.out
                 /\ res.out["Tag Name"] = res.tag
                 /\ res.out["Children Count"] = n
                 /\ Len(res.out["Children Sample (First 2)"]) = Min(2, n)
                 /\ res.out["Children Sample (First 2)"] = SubSeq(data[res.tag].children, 1, Min(2, n))
        ELSE /\ DOMAIN res.out = {"status"}
             /\ Contains(res.out["status"], "'" \o res.tag \o "'")

\* A hit on a tag with three children, of which the sample holds two.
C9_Witness ==
    /\ res.op = "lookup_tag"
    /\ res.tag \in DOMAIN data
    /\ res.out["Children Count"] = 3
    /\ Len(res.out["Children Sample (First 2)"]) = 2

\* The top-level elements of the source that have a non-empty name and a
\* non-empty documentation, in source order.
RECURSIVE DocumentedIn(_, _, _)
DocumentedIn(filename, elements, i) ==
    IF i > Len(elements) THEN <<>>
    ELSE (IF /\ "name" \in DOMAIN elements[i] /\ elements[i].name # ""
             /\ "documentation" \in DOMAIN elements[i] /\ elements[i].documentation # ""
          THEN <<[file |-> filename, name |-> elements[i].name, doc |-> elements[i].documentation]>>
          ELSE <<>>)
         \o DocumentedIn(filename, elements, i + 1)

RECURSIVE Documented(_, _)
Documented(items, i) ==
    IF i > Len(items) THEN <<>>
    ELSE DocumentedIn(items[i].k, items[i].v.o.elements, 1) \o Documented(items, i + 1)

Extracted == epc \in {"extracted", "encoder", "mapped", "saved"}

\* The prompt the key map holds for a key.
PromptOfKey(key) ==
    key_to_prompt_map[CHOOSE i \in 1..Len(key_to_prompt_map) : key_to_prompt_map[i].k = key].v

\* C5 (key/prompt alignment), as claimed: extract_prompts returns a key map
\* and a prompt list of the same length, the i-th key mapped to the i-th
\* prompt, and generate_and_save_embeddings gives each key the vector of
\* that key's own prompt.
C5_KeyPromptAlignment ==
    /\ Extracted =>
          /\ Len(key_to_prompt_map) = Len(all_prompts)
          /\ \A i \in 1..Len(key_to_prompt_map) : key_to_prompt_map[i].v = all_prompts[i]
    /\ epc \in {"mapped", "saved"} =>
          \A i \in 1..Len(generated_embeddings) :
              generated_embeddings[i].v = Vec(PromptOfKey(generated_embeddings[i].k))

\* C10 (skip rule): the prompt list holds one prompt for each top-level
\* element with a non-empty name and a non-empty documentation, in source
\* order, containing the file identifier, the name and the documentation;
\* the keys of the key map are the "{file}/{name}" of these elements; no
\* other element and no child of a complex type adds an entry.
C10_SkipRule ==
    Extracted =>
        LET docd == Documented(edata, 1)
        IN  /\ Len(all_prompts) = Len(docd)
            /\ \A i \in 1..Len(docd) :
                  /\ Contains(all_prompts[i], docd[i].file)
                  /\ Contains(all_prompts[i], docd[i].name)
                  /\ Contains(all_prompts[i], docd[i].doc)
            /\ { key_to_prompt_map[i].k : i \in 1..Len(key_to_prompt_map) }
               = { docd[i].file \o "/" \o docd[i].name : i \in 1..Len(docd) }
            /\ \A i \in 1..Len(key_to_prompt_map) :
                  \E j \in 1..Len(all_prompts) : key_to_prompt_map[i].v = all_prompts[j]

\* One element is extracted while a named top-level element without
\* documentation and a documented child of a complex type are passed over.
C10_Witness ==
    /\ Extracted
    /\ Len(all_prompts) = 1
    /\ \E i \in 1..Len(edata) :
          /\ \E e \in 1..Len(edata[i].v.o.elements) :
                LET el == edata[i].v.o.elements[e]
                IN  Get(el, "name", None) = "a" /\ Get(el, "documentation", "") = ""
          /\ \E t \in 1..Len(edata[i].v.o.complexTypes) :
             \E c \in 1..Len(edata[i].v.o.complexTypes[t].children) :
                LET el == edata[i].v.o.complexTypes[t].children[c]
                IN  Truthy(Get(el, "name", None)) /\ Truthy(Get(el, "documentation", None))

\* The pairs (p, c) of indexed tags such that p has a declared child named c.
ChildEdges ==
    { e \in (DOMAIN data) \X (DOMAIN data) :
        \E m \in 1..Len(data[e[1]].children) :
            LET ch == data[e[1]].children[m]
            IN  "name" \in DOMAIN ch /\ ch.name = e[2] }

\* The pairs (p, c) of indexed tags such that p has a declared child named c
\* with minOccurs >= 1.
RequiredEdges ==
    { e \in (DOMAIN data) \X (DOMAIN data) :
        \E m \in 1..Len(data[e[1]].children) :
            LET ch == data[e[1]].children[m]
            IN  /\ "name" \in DOMAIN ch /\ ch.name = e[2]
                /\ "minOccurs" \in DOMAIN ch /\ ParseInt(ch.minOccurs) >= 1 }

Successors(edges, set) == { e[2] : e \in { x \in edges : x[1] \in set } }

\* The tags reached from a set of tags in at most n steps.
RECURSIVE ReachedIn(_, _, _)
ReachedIn(edges, set, n) ==
    IF n = 0 THEN set ELSE ReachedIn(edges, set \cup Successors(edges, set), n - 1)

\* The tag lists itself, transitively.
OnCycle(edges, tag) ==
    tag \in ReachedIn(edges, Successors(edges, {tag}), Cardinality(DOMAIN data))

\* A cycle is reachable from the root.
CycleReachable(edges, root) ==
    \E t \in ReachedIn(edges, {root}, Cardinality(DOMAIN data)) : OnCycle(edges, t)

TopLevelRun ==
    /\ call.op = "generate_xml_message"
    /\ call.tag \in DOMAIN data
    /\ data[call.tag].location_type = TopLevel

\* C12 (minimal generator termination), as claimed: for a top-level root the
\* call comes to an end if and only if no cycle of required, indexed
\* children is reachable from the root; with such a cycle it never ends.
C12_TerminatesIffAcyclic ==
    /\ [](TopLevelRun /\ CycleReachable(RequiredEdges, call.tag) => ~Done)
    /\ (TopLevelRun /\ ~CycleReachable(RequiredEdges, call.tag)) ~> Done

\* C12, amended: for a top-level root the call always comes to an end; it
\* returns if and only if no cycle of required, indexed children is
\* reachable from the root, and with such a cycle the unguarded recursion
\* runs into the interpreter's recursion limit and RecursionError leaves
\* the call.  Cycles through children with minOccurs 0 or none, or through
\* names that are not indexed, are never followed.
C12_ReturnsIffAcyclic ==
    /\ [](TopLevelRun /\ rpc = "returned" => ~CycleReachable(RequiredEdges, call.tag))
    /\ [](TopLevelRun /\ rpc = "raised" => CycleReachable(RequiredEdges, call.tag))
    /\ [](TopLevelRun /\ ~CycleReachable(RequiredEdges, call.tag) => Len(stack) < RecursionLimit)
    /\ TopLevelRun ~> Done

\* The call for a top-level root with a reachable cycle of required
\* children has ended in RecursionError.
C12_Witness ==
    /\ TopLevelRun
    /\ rpc = "raised"
    /\ CycleReachable(RequiredEdges, call.tag)

=============================================================================
